---- MODULE Spec2Model ----
(***************************************************************************)
(* A model of the DOCX anonymization engine (src/anonymizer.py).           *)
(*                                                                         *)
(* Text.  A string is modelled as a sequence of ATOMS.  An atom is a       *)
(* maximal piece of text that the engine's regular expressions and         *)
(* substring tests cannot split: either a run of word characters (\w, e.g. *)
(* "John", "0000", "AUTHOR_NAME") or one punctuation/space character.      *)
(* Every \b of the source patterns therefore falls on an atom edge, and    *)
(* the regular expressions are evaluated atom by atom exactly as Python's  *)
(* re module evaluates them character by character (leftmost match,        *)
(* greedy quantifiers, non-overlapping substitution, left to right).       *)
(* The length of a string is the sum of the lengths of its atoms.          *)
(*                                                                         *)
(* Document.  A document is a sequence of paragraphs, a paragraph a        *)
(* sequence of runs, a run a record [text, fmt]: fmt stands for all the    *)
(* non-text attributes of the run (bold, italic, font size, ...).          *)
(***************************************************************************)
EXTENDS Integers, Sequences, FiniteSets, TLC

(***************************************************************************)
(* Atoms and their character classes.                                      *)
(***************************************************************************)

\* a 45-letter word: with a heading word and a space it passes 50 characters
LongWord == "pneumonoultramicroscopicsilicovolcanoconiosis"

\* atoms made of ASCII letters only
AlphaAtoms ==
  { "John", "Smith", "Jane", "Doe", "jane", "doe", "Dr", "Li", "J", "X", "Y",
    "Authors", "Dept", "of", "University", "Department", "Corresponding",
    "ORCID", "EMAIL", "Email", "uni", "edu", "Abstract", "Abstracts",
    "References", "We", "present", LongWord }

\* atoms made of ASCII digits only
DigitAtoms == { "1", "0000", "0002", "1825", "0097", "2020" }

\* three digits followed by the letter X (the ISO check digit of an ORCID)
DigitXAtoms == { "000X" }

\* letters joined by underscores (the inside of the placeholder tokens)
UnderscoreAtoms == { "AUTHOR_NAME", "AUTHOR_AFFILIATION" }

\* one character each, none of them a word character
PunctAtoms == { " ", ".", ",", ":", "@", "-", "[", "]", "(", ")" }

Atoms == AlphaAtoms \cup DigitAtoms \cup DigitXAtoms \cup UnderscoreAtoms \cup PunctAtoms

\* \w of Python's re: letters, digits and the underscore
IsWordAtom(a) == a \in AlphaAtoms \cup DigitAtoms \cup DigitXAtoms \cup UnderscoreAtoms

\* str.lower() of one atom
Lower(a) ==
  CASE a = "John" -> "john"
    [] a = "Smith" -> "smith"
    [] a = "Jane" -> "jane"
    [] a = "Doe" -> "doe"
    [] a = "Dr" -> "dr"
    [] a = "Li" -> "li"
    [] a = "J" -> "j"
    [] a = "X" -> "x"
    [] a = "Y" -> "y"
    [] a = "Authors" -> "authors"
    [] a = "Dept" -> "dept"
    [] a = "University" -> "university"
    [] a = "Department" -> "department"
    [] a = "Corresponding" -> "corresponding"
    [] a = "ORCID" -> "orcid"
    [] a = "EMAIL" -> "email"
    [] a = "Email" -> "email"
    [] a = "Abstract" -> "abstract"
    [] a = "Abstracts" -> "abstracts"
    [] a = "References" -> "references"
    [] a = "We" -> "we"
    [] a = "000X" -> "000x"
    [] a = "AUTHOR_NAME" -> "author_name"
    [] a = "AUTHOR_AFFILIATION" -> "author_affiliation"
    [] OTHER -> a

\* str.lower() of a string
LowerText(t) == [i \in 1..Len(t) |-> Lower(t[i])]

RECURSIVE TextLen(_)
\* len() of a string: the characters of all its atoms
TextLen(t) == IF t = <<>> THEN 0 ELSE Len(Head(t)) + TextLen(Tail(t))

RECURSIVE LStrip(_)
LStrip(t) == IF t # <<>> /\ Head(t) = " " THEN LStrip(Tail(t)) ELSE t

RECURSIVE RStrip(_)
RStrip(t) ==
  IF t # <<>> /\ t[Len(t)] = " " THEN RStrip(SubSeq(t, 1, Len(t) - 1)) ELSE t

\* str.strip(): leading and trailing whitespace removed
Strip(t) == RStrip(LStrip(t))

\* the lower-cased keywords that occur inside a lower-cased atom without
\* being the whole atom ("abstract" in "abstracts")
ProperSubstrings == { <<"abstract", "abstracts">> }

\* keyword in atom, both lower-cased (Python's substring operator "in")
InAtom(kw, a) == kw = a \/ <<kw, a>> \in ProperSubstrings

\* marker in text, for a marker of one or more atoms and a lower-cased text:
\* a marker of one word may sit inside a longer word, a marker of several
\* words ("works cited") is matched atom by atom (no atom of the alphabet
\* ends or begins with a word of such a marker)
Contains(marker, t) ==
  IF Len(marker) = 1
  THEN \E i \in 1..Len(t) : InAtom(marker[1], t[i])
  ELSE \E i \in 1..(Len(t) - Len(marker) + 1) :
         \A k \in 1..Len(marker) : t[i + k - 1] = marker[k]

(***************************************************************************)
(* Program constants.                                                      *)
(***************************************************************************)

\* a heading is shorter than this (len(text) < 50)
HeadingMaxLen == 50

\* the default end of the author section (min(15, reference_start))
DefaultAuthorEnd == 15

\* a recognized name is kept when longer than this (len(ent.text) > 2)
MinNameLen == 2

\* _is_likely_affiliation: shorter than this is no affiliation
AffiliationMinLen == 10

\* _is_likely_affiliation: longer than this is no affiliation
AffiliationMaxLen == 300

\* an affiliation line is replaced when shorter than this
AffiliationLineMaxLen == 200

\* ' '.join(text_stripped.split()[:3])
FirstWordsCount == 3

\* the top-level label of an e-mail address: [A-Z|a-z]{2,}
TldMinLen == 2

\* \d{4}: the digits of one group of an ORCID
OrcidGroupLen == 4

\* CONTENT_START_MARKERS, lower-cased, as atom sequences
CONTENT_START_MARKERS ==
  { <<"abstract">>, <<"introduction">>, <<"background">>, <<"methods">>,
    <<"methodology">>, <<"materials", " ", "and", " ", "methods">> }

\* REFERENCE_MARKERS, lower-cased, as atom sequences
REFERENCE_MARKERS ==
  { <<"references">>, <<"bibliography">>, <<"works", " ", "cited">>,
    <<"literature", " ", "cited">>, <<"cited", " ", "literature">> }

\* the keywords of step 4 of the redaction
AffiliationKeywords ==
  { <<"university">>, <<"department">>, <<"institute">>, <<"college">>,
    <<"school">>, <<"center">>, <<"centre">> }

\* the keywords _is_likely_affiliation looks for in the first three words
FirstWordsKeywords ==
  { <<"department">>, <<"university">>, <<"institute">>, <<"college">> }

\* the placeholder tokens, as atoms
AUTHOR_NAME == << "[", "AUTHOR_NAME", "]" >>
EMAIL == << "[", "EMAIL", "]" >>
ORCID == << "[", "ORCID", "]" >>
AUTHOR_AFFILIATION == << "[", "AUTHOR_AFFILIATION", "]" >>

(***************************************************************************)
(* The Document Model (python-docx): paragraph text and run mutation.      *)
(***************************************************************************)

RECURSIVE ConcatRuns(_)
\* para.text: the concatenation of the texts of the paragraph's runs
ConcatRuns(para) ==
  IF para = <<>> THEN <<>> ELSE Head(para).text \o ConcatRuns(Tail(para))

ParaText(para) == ConcatRuns(para)

\* variant: the run is replaced by a new run of default formatting
SetRunTextFresh(run, text) == [text |-> text, fmt |-> "default"]

\* run.text = text: the text is replaced, every other attribute is kept
SetRunText(run, text) == [run EXCEPT !.text = text]

(***************************************************************************)
(* Boundary Detector.                                                      *)
(***************************************************************************)

\* text = para.text.strip().lower();
\* len(text) < 50 and any(marker in text for marker in markers)
IsHeading(para, markers) ==
  LET text == LowerText(Strip(ParaText(para)))
  IN  TextLen(text) < HeadingMaxLen /\ \E marker \in markers : Contains(marker, text)

RECURSIVE ScanReference(_, _)
\* the loop of _find_reference_section from paragraph idx (0-based) on
ScanReference(doc, idx) ==
  IF idx >= Len(doc) THEN Len(doc)
  ELSE IF IsHeading(doc[idx + 1], REFERENCE_MARKERS) THEN idx
  ELSE ScanReference(doc, idx + 1)

\* variant: the last qualifying paragraph wins
FindReferenceSectionLast(doc) ==
  LET found == { idx \in 0..(Len(doc) - 1) : IsHeading(doc[idx + 1], REFERENCE_MARKERS) }
  IN  IF found = {} THEN Len(doc)
      ELSE CHOOSE idx \in found : \A other \in found : other <= idx

\* _find_reference_section(doc)
FindReferenceSection(doc) == ScanReference(doc, 0)

Min(a, b) == IF a < b THEN a ELSE b

\* variant: the scan runs to the end of the document
AuthorScanEndAll(doc, reference_start) == Len(doc)

\* range(min(reference_start, len(doc.paragraphs))): the upper end of the scan
AuthorScanEnd(doc, reference_start) == Min(reference_start, Len(doc))

\* variant: default_end = 15, without the min
DefaultEndFixed(reference_start) == DefaultAuthorEnd

\* default_end = min(15, reference_start)
DefaultEnd(reference_start) == Min(DefaultAuthorEnd, reference_start)

RECURSIVE ScanContentStart(_, _, _)
\* the loop of _find_author_section_end from paragraph idx (0-based) on
ScanContentStart(doc, reference_start, idx) ==
  IF idx >= AuthorScanEnd(doc, reference_start) THEN DefaultEnd(reference_start)
  ELSE IF IsHeading(doc[idx + 1], CONTENT_START_MARKERS) THEN idx
  ELSE ScanContentStart(doc, reference_start, idx + 1)

FindAuthorSectionEnd(doc, reference_start) == ScanContentStart(doc, reference_start, 0)

(***************************************************************************)
(* Name Extractor.                                                         *)
(***************************************************************************)

RECURSIVE JoinSpace(_)
\* ' '.join(texts)
JoinSpace(texts) ==
  IF texts = <<>> THEN <<>>
  ELSE IF Len(texts) = 1 THEN texts[1]
  ELSE texts[1] \o <<" ">> \o JoinSpace(Tail(texts))

\* variant: every paragraph of the document is given to the recognizer
AuthorParagraphsAll(doc, author_section_end) == doc

\* doc.paragraphs[:author_section_end] (a slice never raises)
AuthorParagraphs(doc, author_section_end) ==
  SubSeq(doc, 1, Min(author_section_end, Len(doc)))

\* author_text = ' '.join([para.text for para in doc.paragraphs[:author_section_end]])
AuthorText(doc, author_section_end) ==
  LET paras == AuthorParagraphs(doc, author_section_end)
  IN  JoinSpace([i \in 1..Len(paras) |-> ParaText(paras[i])])

\* an entity is kept when it is a PERSON longer than two characters
KeepEntity(ent) == ent.label = "PERSON" /\ TextLen(ent.text) > MinNameLen

\* names = set of ent.text over the kept entities
PersonNames(ents) == { ent.text : ent \in { e \in ents : KeepEntity(e) } }

(***************************************************************************)
(* Redaction Engine: the regular expressions.                              *)
(***************************************************************************)

\* \b before the atom at position p (1..Len(t)+1): exactly one of the two
\* neighbouring characters is a word character
WordBoundary(t, p) ==
  LET left == p > 1 /\ IsWordAtom(t[p - 1])
      right == p <= Len(t) /\ IsWordAtom(t[p])
  IN  left # right

\* r'\b' + re.escape(name) + r'\b' with re.IGNORECASE matches at position i
NameMatchAt(t, i, name) ==
  /\ i + Len(name) - 1 <= Len(t)
  /\ \A k \in 1..Len(name) : Lower(t[i + k - 1]) = Lower(name[k])
  /\ WordBoundary(t, i)
  /\ WordBoundary(t, i + Len(name))

RECURSIVE SubNameFrom(_, _, _)
\* re.sub(pattern, '[AUTHOR_NAME]', t): leftmost matches, not overlapping
SubNameFrom(t, i, name) ==
  IF i > Len(t) THEN <<>>
  ELSE IF NameMatchAt(t, i, name)
       THEN AUTHOR_NAME \o SubNameFrom(t, i + Len(name), name)
       ELSE <<t[i]>> \o SubNameFrom(t, i + 1, name)

SubName(t, name) == SubNameFrom(t, 1, name)

RECURSIVE SubNames(_, _)
\* for name in detected_names: modified_text = re.sub(...), in iteration order
SubNames(t, order) ==
  IF order = <<>> THEN t ELSE SubNames(SubName(t, Head(order)), Tail(order))

\* [A-Za-z0-9._%+-] (the alphabet has no atom "%" or "+")
LocalPartAtom(a) ==
  a \in AlphaAtoms \cup DigitAtoms \cup DigitXAtoms \cup UnderscoreAtoms \cup {".", "-"}

\* [A-Za-z0-9.-]
DomainAtom(a) == a \in AlphaAtoms \cup DigitAtoms \cup DigitXAtoms \cup {".", "-"}

\* [A-Z|a-z] (the alphabet has no atom "|", which the class also admits)
TldAtom(a) == a \in AlphaAtoms

RECURSIVE RunEnd(_, _, _)
\* the position after the longest run of atoms of one class that starts at i:
\* class 1 is the local part, 2 the domain, 3 the top-level label
RunEnd(t, i, class) ==
  IF i > Len(t) THEN i
  ELSE IF \/ class = 1 /\ LocalPartAtom(t[i])
          \/ class = 2 /\ DomainAtom(t[i])
          \/ class = 3 /\ TldAtom(t[i])
       THEN RunEnd(t, i + 1, class)
       ELSE i

\* \.[A-Z|a-z]{2,}\b with the dot at position k: the position after the match,
\* or 0.  The label is greedy, and no shorter label ends at a \b.
TldEnd(t, k) ==
  IF k > Len(t) \/ t[k] # "." THEN 0
  ELSE LET m == RunEnd(t, k + 1, 3)
       IN  IF TextLen(SubSeq(t, k + 1, m - 1)) >= TldMinLen /\ WordBoundary(t, m)
           THEN m ELSE 0

\* the e-mail pattern at position i: the position after the match, or 0.
\* The local part is the whole run of local-part atoms before "@"; the greedy
\* domain gives back atoms until a dot and a label follow: the last such dot.
EmailMatchEnd(t, i) ==
  LET j == RunEnd(t, i, 1)
      e == RunEnd(t, j + 1, 2)
      dots == { k \in (j + 2)..(e - 1) : TldEnd(t, k) > 0 }
  IN  IF /\ WordBoundary(t, i)
         /\ j > i
         /\ j <= Len(t)
         /\ t[j] = "@"
         /\ dots # {}
      THEN TldEnd(t, CHOOSE k \in dots : \A k2 \in dots : k2 <= k)
      ELSE 0

RECURSIVE SubEmailFrom(_, _)
\* re.sub(email_pattern, '[EMAIL]', t)
SubEmailFrom(t, i) ==
  IF i > Len(t) THEN <<>>
  ELSE IF EmailMatchEnd(t, i) > 0
       THEN EMAIL \o SubEmailFrom(t, EmailMatchEnd(t, i))
       ELSE <<t[i]>> \o SubEmailFrom(t, i + 1)

SubEmail(t) == SubEmailFrom(t, 1)

\* \d{4}
FourDigits(a) == a \in DigitAtoms /\ Len(a) = OrcidGroupLen

\* \d{3}[0-9X]
LastOrcidGroup(a) == FourDigits(a) \/ a \in DigitXAtoms

\* \b\d{4}-\d{4}-\d{4}-\d{3}[0-9X]\b matches at position i (seven atoms)
OrcidMatchAt(t, i) ==
  /\ i + 6 <= Len(t)
  /\ WordBoundary(t, i)
  /\ FourDigits(t[i]) /\ t[i + 1] = "-"
  /\ FourDigits(t[i + 2]) /\ t[i + 3] = "-"
  /\ FourDigits(t[i + 4]) /\ t[i + 5] = "-"
  /\ LastOrcidGroup(t[i + 6])
  /\ WordBoundary(t, i + 7)

RECURSIVE SubOrcidFrom(_, _)
\* re.sub(orcid_pattern, '[ORCID]', t)
SubOrcidFrom(t, i) ==
  IF i > Len(t) THEN <<>>
  ELSE IF OrcidMatchAt(t, i)
       THEN ORCID \o SubOrcidFrom(t, i + 7)
       ELSE <<t[i]>> \o SubOrcidFrom(t, i + 1)

SubOrcid(t) == SubOrcidFrom(t, 1)

(***************************************************************************)
(* Redaction Engine: the affiliation classifier and the run pass.          *)
(***************************************************************************)

\* variant: the keywords are looked for in the whole text, not in split()[:3]
FirstWordsAll(t, n) == t

RECURSIVE FirstWords(_, _)
\* the atoms of text.split()[:n], for a text without leading whitespace
FirstWords(t, n) ==
  IF t = <<>> \/ n = 0 THEN <<>>
  ELSE IF Head(t) = " "
       THEN IF n = 1 THEN <<>> ELSE FirstWords(LStrip(t), n - 1)
       ELSE <<Head(t)>> \o FirstWords(Tail(t), n)

\* text_stripped[0].isdigit()
StartsWithDigit(t) == t # <<>> /\ Head(t) \in DigitAtoms \cup DigitXAtoms

\* _is_likely_affiliation(text)
IsLikelyAffiliation(text) ==
  LET text_stripped == Strip(text)
      first_words == LowerText(FirstWords(text_stripped, FirstWordsCount))
  IN  IF TextLen(text_stripped) < AffiliationMinLen THEN FALSE
      ELSE IF TextLen(text_stripped) > AffiliationMaxLen THEN FALSE
      ELSE IF StartsWithDigit(text_stripped) THEN TRUE
      ELSE \E keyword \in FirstWordsKeywords : Contains(keyword, first_words)

\* the three conditions of step 4 on the original text of the run
IsAffiliationLine(original_text) ==
  /\ IsLikelyAffiliation(original_text)
  /\ \E keyword \in AffiliationKeywords : Contains(keyword, LowerText(original_text))
  /\ TextLen(Strip(original_text)) < AffiliationLineMaxLen
  /\ ~(original_text # <<>> /\ original_text[Len(original_text)] = ".")

\* steps 1 to 3 on the text of a run: names in iteration order, e-mail, ORCID
Substitute(original_text, order) == SubOrcid(SubEmail(SubNames(original_text, order)))

\* variant: step 4 tests the text after steps 1 to 3, not the original text
ModifiedTextSubstituted(original_text, order) ==
  IF IsAffiliationLine(Substitute(original_text, order)) THEN AUTHOR_AFFILIATION
  ELSE Substitute(original_text, order)

\* modified_text at the end of the loop body
ModifiedText(original_text, order) ==
  IF IsAffiliationLine(original_text) THEN AUTHOR_AFFILIATION
  ELSE Substitute(original_text, order)

\* the loop body: the run after the pass
AnonymizeRun(run, order) ==
  IF ModifiedText(run.text, order) # run.text
  THEN SetRunText(run, ModifiedText(run.text, order))
  ELSE run

\* for run in para.runs
AnonymizeParagraph(para, order) ==
  [r \in 1..Len(para) |-> AnonymizeRun(para[r], order)]

\* variant: the loop runs over every paragraph of the document
VisitedParagraphsAll(doc, author_section_end) == 1..Len(doc)

\* variant: range(author_section_end + 1), one paragraph too many
VisitedParagraphsInclusive(doc, author_section_end) == 1..(author_section_end + 1)

\* range(author_section_end), as positions 1..author_section_end
VisitedParagraphs(doc, author_section_end) == 1..author_section_end

\* doc.paragraphs[idx] raises IndexError for an idx past the last paragraph
AnonymizeRaises(doc, author_section_end) ==
  \E i \in VisitedParagraphs(doc, author_section_end) : i > Len(doc)

\* _anonymize_author_section, for a call that does not raise
AnonymizeAuthorSection(doc, author_section_end, order) ==
  [i \in 1..Len(doc) |->
     IF i \in VisitedParagraphs(doc, author_section_end)
     THEN AnonymizeParagraph(doc[i], order)
     ELSE doc[i]]

(***************************************************************************)
(* The Name Recognizer (spaCy), an external collaborator: it returns       *)
(* entities, each a span of the text it was given with a label, or raises. *)
(***************************************************************************)

Entity(text, label) == [text |-> text, label |-> label]

\* the spans the recognizer may report
EntityPool ==
  { Entity(<<"John", " ", "Smith">>, "PERSON"),
    Entity(<<"Jane", " ", "Doe">>, "PERSON"),
    Entity(<<"Doe">>, "PERSON"),
    Entity(<<"Li">>, "PERSON"),
    Entity(<<"Email">>, "PERSON"),
    Entity(<<"Dept">>, "PERSON"),
    Entity(<<"University">>, "ORG") }

\* span is a substring of text (ent.text is a slice of the input)
Occurs(span, text) ==
  \E i \in 1..(Len(text) - Len(span) + 1) :
     \A k \in 1..Len(span) : text[i + k - 1] = span[k]

\* doc_nlp.ents: any set of spans of the text
Recognize(text) == SUBSET { ent \in EntityPool : Occurs(ent.text, text) }

\* the orders in which Python may iterate over a set
Orders(S) ==
  { order \in [1..Cardinality(S) -> S] :
      \A i, j \in 1..Cardinality(S) : i # j => order[i] # order[j] }

(***************************************************************************)
(* Input documents.                                                        *)
(***************************************************************************)

\* the paragraphs of the longest document
MaxParas == 21

\* the paragraphs before the tail of a front-matter document
MaxFront == 1

Run(text, fmt) == [text |-> text, fmt |-> fmt]

Para(text, fmt) == << Run(text, fmt) >>

AuthorsLine ==
  Para(<<"Authors", ":", " ", "John", " ", "Smith", ",", " ", "Jane", " ", "Doe">>, "size12")

DeptLine ==
  Para(<<"Dept", ".", " ", "of", " ", "X", ",", " ", "University", " ", "of", " ", "Y">>, "size10")

CorrespondingLine ==
  Para(<<"Corresponding", ":", " ", "jane", ".", "doe", "@", "uni", ".", "edu">>, "italic")

OrcidLine ==
  Para(<<"ORCID", ":", " ", "0000", "-", "0002", "-", "1825", "-", "0097">>, "size10")

AbstractHeading == Para(<<"Abstract">>, "bold")

BodyText == Para(<<"We", " ", "present", ".", ".", ".">>, "size11")

ReferencesHeading == Para(<<"References">>, "bold")

ReferenceEntry ==
  Para(<<"Smith", ",", " ", "J", ".", " ", "(", "2020", ")", ".", ".", ".">>, "size11")

\* an author line whose name comes before the institution
TitledLine ==
  Para(<<"Dr", ".", " ", "John", " ", "Smith", ",", " ", "University", " ", "of", " ", "Y">>, "size10")

\* "1University of Y": an affiliation behind its footnote number
NumberedAffiliation == Para(<<"1", "University", " ", "of", " ", "Y">>, "size10")

DepartmentLine == Para(<<"Department", " ", "of", " ", "X">>, "size10")

EmailLine == Para(<<"Email", ":", " ", "jane", "@", "uni", ".", "edu">>, "size10")

ShortNameLine == Para(<<"Li", ",", " ", "Doe">>, "size12")

\* an affiliation line that also holds a name and an e-mail address
AffiliationWithContact ==
  Para(<<"Department", " ", "of", " ", "X", ",", " ", "Jane", " ", "Doe", ",", " ",
         "jane", "@", "uni", ".", "edu">>, "size10")

\* doc.add_paragraph(): a paragraph without runs
BlankParagraph == << >>

\* one name in two runs of different formatting
SplitNameLine == << Run(<<"John", " ">>, "bold"), Run(<<"Smith">>, "italic") >>

\* a sentence that mentions a marker and is too long for a heading
LongSentence == Para(<<"Abstract", " ", LongWord, " ", "References">>, "size11")

\* a paragraph that holds both kinds of marker
BothMarkers == Para(<<"Abstract", " ", "References">>, "bold")

\* the paragraph that fills a long document
Filler == Para(<<"Doe">>, "size12")

FrontPool ==
  { AuthorsLine, DeptLine, CorrespondingLine, OrcidLine, TitledLine,
    NumberedAffiliation, DepartmentLine, EmailLine, ShortNameLine,
    BlankParagraph, SplitNameLine, LongSentence, AffiliationWithContact }

TailPool ==
  { << >>,
    << AbstractHeading, BodyText >>,
    << ReferencesHeading, ReferenceEntry >>,
    << AbstractHeading, BodyText, ReferencesHeading, ReferenceEntry >>,
    << Para(<<"Abstracts">>, "bold"), AbstractHeading, ReferencesHeading,
       ReferenceEntry, ReferencesHeading, AuthorsLine >> }

\* sequences of at most n elements of S
SeqUpTo(S, n) == UNION { [1..k -> S] : k \in 0..n }

\* front matter followed by a tail
FrontDocs == { front \o tail : front \in SeqUpTo(FrontPool, MaxFront), tail \in TailPool }

\* n paragraphs, a content-start heading at c and a references heading at r
\* (0: none), filler everywhere else
LongDoc(n, c, r) ==
  [i \in 1..n |->
     IF i = c /\ i = r THEN BothMarkers
     ELSE IF i = c THEN AbstractHeading
     ELSE IF i = r THEN ReferencesHeading
     ELSE Filler]

LongDocs == UNION { { LongDoc(n, c, r) : c \in 0..n, r \in 0..n } : n \in 0..MaxParas }

\* Scenario A of the specification
ScenarioA ==
  << AuthorsLine, DeptLine, CorrespondingLine, OrcidLine, AbstractHeading,
     BodyText, ReferencesHeading, ReferenceEntry >>

Docs == FrontDocs \cup LongDocs \cup { ScenarioA }

(***************************************************************************)
(* The Orchestrator: anonymize_document, one action per stage.             *)
(***************************************************************************)

VARIABLES
  input,                \* the file at input_path
  output,               \* the file at output_path
  doc,                  \* the Document in memory
  pc,                   \* the stage anonymize_document is about to run
  reference_start_idx,
  author_section_end,
  detected_names,
  order,                \* the order in which detected_names was iterated
  nlp_calls,            \* the texts given to self.nlp in this call
  exc,                  \* the exception a stage has raised
  result,               \* the value returned
  raised,               \* an exception has left anonymize_document
  rerun,                \* this call processes the output of the previous one
  previous_names,       \* the names the previous call detected
  files,                \* interleaved calls: the input and output file of each call
  calls,                \* interleaved calls: the position and outcome of each call
  frames,               \* interleaved calls: the local variables of each call
  requests,             \* HTTP endpoint: the position and response of each request
  tmpdir                \* HTTP endpoint: the temporary files that exist

\* the variables of a single call of anonymize_document
engineVars ==
  << input, output, doc, pc, reference_start_idx, author_section_end,
     detected_names, order, nlp_calls, exc, result, raised, rerun,
     previous_names >>

\* the variables of two interleaved calls
concurrentVars == << files, calls, frames >>

\* the variables of the HTTP endpoint
serverVars == << requests, tmpdir >>

vars == << engineVars, concurrentVars, serverVars >>

\* the exceptions the stages raise; all derive from Exception
ExceptionClasses == { "PackageNotFoundError", "ValueError", "IndexError", "OSError" }

\* variant: except OSError
CaughtOSError(kind) == kind = "OSError"

\* except Exception as e
Caught(kind) == kind \in ExceptionClasses

NoFile == [state |-> "none", doc |-> << >>]

PartialFile == [state |-> "partial", doc |-> << >>]

SavedFile(d) == [state |-> "saved", doc |-> d]

\* the state at the call of anonymize_document(input_path, output_path)
Enter(file, again) ==
  /\ input = file
  /\ output = NoFile
  /\ doc = << >>
  /\ pc = "load"
  /\ reference_start_idx = -1
  /\ author_section_end = -1
  /\ detected_names = {}
  /\ order = << >>
  /\ nlp_calls = << >>
  /\ exc = "none"
  /\ result = "none"
  /\ raised = FALSE
  /\ rerun = again
  /\ previous_names = {}

\* no interleaved calls are modelled
ConcurrentUnused == files = << >> /\ calls = << >> /\ frames = << >>

\* no HTTP requests are modelled
ServerUnused == requests = << >> /\ tmpdir = {}

Init ==
  /\ \E file \in Docs : Enter(file, FALSE)
  /\ ConcurrentUnused
  /\ ServerUnused

\* a stage raises: the except clause returns False, or the exception escapes
Raise(kind) ==
  /\ exc' = kind
  /\ pc' = "done"
  /\ result' = IF Caught(kind) THEN "false" ELSE "none"
  /\ raised' = ~Caught(kind)

\* doc = Document(input_path)
Load ==
  /\ pc = "load"
  /\ \/ /\ doc' = input
        /\ pc' = "find_reference"
        /\ UNCHANGED << exc, result, raised >>
     \/ /\ Raise("PackageNotFoundError")
        /\ UNCHANGED doc
  /\ UNCHANGED << input, output, reference_start_idx, author_section_end,
                  detected_names, order, nlp_calls, rerun, previous_names >>
  /\ UNCHANGED << concurrentVars, serverVars >>

\* reference_start_idx = self._find_reference_section(doc)
FindReference ==
  /\ pc = "find_reference"
  /\ reference_start_idx' = FindReferenceSection(doc)
  /\ pc' = "find_author_end"
  /\ UNCHANGED << input, output, doc, author_section_end, detected_names,
                  order, nlp_calls, exc, result, raised, rerun, previous_names >>
  /\ UNCHANGED << concurrentVars, serverVars >>

\* author_section_end = self._find_author_section_end(doc, reference_start_idx)
FindAuthorEnd ==
  /\ pc = "find_author_end"
  /\ author_section_end' = FindAuthorSectionEnd(doc, reference_start_idx)
  /\ pc' = "extract_names"
  /\ UNCHANGED << input, output, doc, reference_start_idx, detected_names,
                  order, nlp_calls, exc, result, raised, rerun, previous_names >>
  /\ UNCHANGED << concurrentVars, serverVars >>

\* detected_names = self._extract_person_names(doc, author_section_end)
ExtractNames ==
  /\ pc = "extract_names"
  /\ nlp_calls' = Append(nlp_calls, AuthorText(doc, author_section_end))
  /\ \/ /\ \E ents \in Recognize(AuthorText(doc, author_section_end)) :
             detected_names' = PersonNames(ents)
        /\ pc' = "anonymize"
        /\ UNCHANGED << exc, result, raised >>
     \/ /\ Raise("ValueError")
        /\ UNCHANGED detected_names
  /\ UNCHANGED << input, output, doc, reference_start_idx, author_section_end,
                  order, rerun, previous_names >>
  /\ UNCHANGED << concurrentVars, serverVars >>

\* self._anonymize_author_section(doc, author_section_end, detected_names)
Anonymize ==
  /\ pc = "anonymize"
  /\ IF AnonymizeRaises(doc, author_section_end)
     THEN /\ Raise("IndexError")
          /\ UNCHANGED << doc, order >>
     ELSE /\ \E o \in Orders(detected_names) :
               /\ order' = o
               /\ doc' = AnonymizeAuthorSection(doc, author_section_end, o)
          /\ pc' = "save"
          /\ UNCHANGED << exc, result, raised >>
  /\ UNCHANGED << input, output, reference_start_idx, author_section_end,
                  detected_names, nlp_calls, rerun, previous_names >>
  /\ UNCHANGED << concurrentVars, serverVars >>

\* variant: the save is also reachable before the redaction has run
SaveBeforeRedaction ==
  /\ pc \in { "anonymize", "save" }
  /\ \/ /\ output' = SavedFile(doc)
        /\ pc' = "done"
        /\ result' = "true"
        /\ UNCHANGED << exc, raised >>
     \/ /\ Raise("OSError")
        /\ output' \in { NoFile, PartialFile }
  /\ UNCHANGED << input, doc, reference_start_idx, author_section_end,
                  detected_names, order, nlp_calls, rerun, previous_names >>
  /\ UNCHANGED << concurrentVars, serverVars >>

\* doc.save(output_path); return True
Save ==
  /\ pc = "save"
  /\ \/ /\ output' = SavedFile(doc)
        /\ pc' = "done"
        /\ result' = "true"
        /\ UNCHANGED << exc, raised >>
     \/ /\ Raise("OSError")
        /\ output' \in { NoFile, PartialFile }
  /\ UNCHANGED << input, doc, reference_start_idx, author_section_end,
                  detected_names, order, nlp_calls, rerun, previous_names >>
  /\ UNCHANGED << concurrentVars, serverVars >>

\* the caller runs anonymize_document again, on the file it has written
Rerun ==
  /\ pc = "done"
  /\ result = "true"
  /\ ~rerun
  /\ input' = output.doc
  /\ output' = NoFile
  /\ doc' = << >>
  /\ pc' = "load"
  /\ reference_start_idx' = -1
  /\ author_section_end' = -1
  /\ detected_names' = {}
  /\ order' = << >>
  /\ nlp_calls' = << >>
  /\ exc' = "none"
  /\ result' = "none"
  /\ raised' = FALSE
  /\ rerun' = TRUE
  /\ previous_names' = detected_names
  /\ UNCHANGED << concurrentVars, serverVars >>

Next ==
  \/ Load
  \/ FindReference
  \/ FindAuthorEnd
  \/ ExtractNames
  \/ Anonymize
  \/ Save
  \/ Rerun

Spec == Init /\ [][Next]_vars

(***************************************************************************)
(* Two calls of anonymize_document on one DocxAnonymizer, interleaved.     *)
(* The engine object holds the recognizer and the marker constants; what   *)
(* a call computes it keeps in its local variables.                        *)
(***************************************************************************)

\* the calls in flight
Invocations == { "A", "B" }

\* the documents the interleaved calls work on
ConcurrentDocs ==
  { << AuthorsLine, AbstractHeading, BodyText >>,
    << TitledLine, ReferencesHeading, ReferenceEntry >>,
    << SplitNameLine, CorrespondingLine >>,
    << >> }

\* variant: the values are kept in attributes of the engine object, one
\* frame for all calls
FrameShared(k) == CHOOSE f \in Invocations : TRUE

\* doc, reference_start_idx, author_section_end and detected_names are
\* local variables of anonymize_document: every call has a frame of its own
Frame(k) == k

\* the locals at the call
NewFrame ==
  [ doc |-> << >>, reference_start_idx |-> -1, author_section_end |-> -1,
    detected_names |-> {} ]

\* the position of a call at its start
NewCall == [ pc |-> "load", exc |-> "none", result |-> "none", order |-> << >> ]

\* no single call is modelled
EngineUnused ==
  /\ input = << >>
  /\ output = NoFile
  /\ doc = << >>
  /\ pc = "unused"
  /\ reference_start_idx = -1
  /\ author_section_end = -1
  /\ detected_names = {}
  /\ order = << >>
  /\ nlp_calls = << >>
  /\ exc = "none"
  /\ result = "none"
  /\ raised = FALSE
  /\ rerun = FALSE
  /\ previous_names = {}

\* two calls on two different documents, on input and output paths of their own
ConcurrentInit ==
  /\ \E file \in [Invocations -> ConcurrentDocs] :
       /\ \A j, k \in Invocations : j # k => file[j] # file[k]
       /\ files = [k \in Invocations |-> [input |-> file[k], output |-> NoFile]]
  /\ calls = [k \in Invocations |-> NewCall]
  /\ frames = [k \in Invocations |-> NewFrame]
  /\ EngineUnused
  /\ ServerUnused

\* a stage of call k raises: its except clause returns False
CallRaise(k, kind) ==
  calls' = [calls EXCEPT ![k] =
              [@ EXCEPT !.pc = "done", !.exc = kind,
                        !.result = IF Caught(kind) THEN "false" ELSE "none"]]

\* the stage of call k has returned: the call goes on to the next stage
CallGoto(k, stage) == calls' = [calls EXCEPT ![k].pc = stage]

\* doc = Document(input_path), in call k
CallLoad(k) ==
  /\ calls[k].pc = "load"
  /\ \/ /\ frames' = [frames EXCEPT ![Frame(k)].doc = files[k].input]
        /\ CallGoto(k, "find_reference")
     \/ /\ CallRaise(k, "PackageNotFoundError")
        /\ UNCHANGED frames
  /\ UNCHANGED << files, engineVars, serverVars >>

\* reference_start_idx = self._find_reference_section(doc), in call k
CallFindReference(k) ==
  /\ calls[k].pc = "find_reference"
  /\ frames' = [frames EXCEPT ![Frame(k)].reference_start_idx =
                                 FindReferenceSection(frames[Frame(k)].doc)]
  /\ CallGoto(k, "find_author_end")
  /\ UNCHANGED << files, engineVars, serverVars >>

\* author_section_end = self._find_author_section_end(doc, reference_start_idx)
CallFindAuthorEnd(k) ==
  /\ calls[k].pc = "find_author_end"
  /\ frames' = [frames EXCEPT ![Frame(k)].author_section_end =
                                 FindAuthorSectionEnd(frames[Frame(k)].doc,
                                                      frames[Frame(k)].reference_start_idx)]
  /\ CallGoto(k, "extract_names")
  /\ UNCHANGED << files, engineVars, serverVars >>

\* detected_names = self._extract_person_names(doc, author_section_end):
\* self.nlp is read, never written
CallExtractNames(k) ==
  /\ calls[k].pc = "extract_names"
  /\ \/ /\ \E ents \in Recognize(AuthorText(frames[Frame(k)].doc,
                                            frames[Frame(k)].author_section_end)) :
             frames' = [frames EXCEPT ![Frame(k)].detected_names = PersonNames(ents)]
        /\ CallGoto(k, "anonymize")
     \/ /\ CallRaise(k, "ValueError")
        /\ UNCHANGED frames
  /\ UNCHANGED << files, engineVars, serverVars >>

\* self._anonymize_author_section(doc, author_section_end, detected_names)
CallAnonymize(k) ==
  /\ calls[k].pc = "anonymize"
  /\ IF AnonymizeRaises(frames[Frame(k)].doc, frames[Frame(k)].author_section_end)
     THEN /\ CallRaise(k, "IndexError")
          /\ UNCHANGED frames
     ELSE \E o \in Orders(frames[Frame(k)].detected_names) :
             /\ frames' = [frames EXCEPT ![Frame(k)].doc =
                             AnonymizeAuthorSection(frames[Frame(k)].doc,
                                                    frames[Frame(k)].author_section_end, o)]
             /\ calls' = [calls EXCEPT ![k] = [@ EXCEPT !.pc = "save", !.order = o]]
  /\ UNCHANGED << files, engineVars, serverVars >>

\* doc.save(output_path); return True, in call k
CallSave(k) ==
  /\ calls[k].pc = "save"
  /\ \/ /\ files' = [files EXCEPT ![k].output = SavedFile(frames[Frame(k)].doc)]
        /\ calls' = [calls EXCEPT ![k] = [@ EXCEPT !.pc = "done", !.result = "true"]]
     \/ /\ CallRaise(k, "OSError")
        /\ \E file \in { NoFile, PartialFile } :
             files' = [files EXCEPT ![k].output = file]
  /\ UNCHANGED << frames, engineVars, serverVars >>

ConcurrentNext ==
  \E k \in Invocations :
     \/ CallLoad(k)
     \/ CallFindReference(k)
     \/ CallFindAuthorEnd(k)
     \/ CallExtractNames(k)
     \/ CallAnonymize(k)
     \/ CallSave(k)

ConcurrentSpec == ConcurrentInit /\ [][ConcurrentNext]_vars

(***************************************************************************)
(* The HTTP endpoint POST /anonymise-docx (app.py): the handler, step by   *)
(* step, and the sending of its response.                                  *)
(***************************************************************************)

\* the requests in flight
Requests == { "r1", "r2" }

\* temp_input.name and temp_output.name: NamedTemporaryFile gives every
\* request names of its own
TempInput(r) == << r, "input" >>

TempOutput(r) == << r, "output" >>

\* a request at the entry of the handler; docx: file.filename ends in .docx
NewRequest(docx) ==
  [ pc |-> "validate", docx |-> docx, success |-> "none", status |-> "none" ]

ServerInit ==
  /\ \E docx \in [Requests -> BOOLEAN] :
       requests = [r \in Requests |-> NewRequest(docx[r])]
  /\ tmpdir = {}
  /\ EngineUnused
  /\ ConcurrentUnused

\* an exception in the try block: except Exception raises HTTPException(500),
\* and the finally clause runs before it leaves the handler
HandlerRaise(r) ==
  requests' = [requests EXCEPT ![r] = [@ EXCEPT !.pc = "finally", !.status = "500"]]

\* if not file.filename.endswith('.docx'): raise HTTPException(400),
\* before any temporary file exists and outside the try block
Validate(r) ==
  /\ requests[r].pc = "validate"
  /\ requests' =
       IF requests[r].docx
       THEN [requests EXCEPT ![r].pc = "create"]
       ELSE [requests EXCEPT ![r] = [@ EXCEPT !.pc = "returned", !.status = "400"]]
  /\ UNCHANGED << tmpdir, engineVars, concurrentVars >>

\* temp_input = NamedTemporaryFile(delete=False, ...); temp_output likewise:
\* both files exist from here on
CreateTempFiles(r) ==
  /\ requests[r].pc = "create"
  /\ tmpdir' = tmpdir \cup { TempInput(r), TempOutput(r) }
  /\ requests' = [requests EXCEPT ![r].pc = "save_upload"]
  /\ UNCHANGED << engineVars, concurrentVars >>

\* content = await file.read(); temp_input.write(content); flush; close
SaveUpload(r) ==
  /\ requests[r].pc = "save_upload"
  /\ \/ requests' = [requests EXCEPT ![r].pc = "anonymize"]
     \/ HandlerRaise(r)
  /\ UNCHANGED << tmpdir, engineVars, concurrentVars >>

\* anonymizer = DocxAnonymizer(); success = anonymizer.anonymize_document(...):
\* the constructor may raise, anonymize_document returns True or False and
\* writes only to temp_output.name
RunAnonymizer(r) ==
  /\ requests[r].pc = "anonymize"
  /\ \/ \E success \in { "true", "false" } :
          requests' = [requests EXCEPT ![r] = [@ EXCEPT !.pc = "respond", !.success = success]]
     \/ HandlerRaise(r)
  /\ UNCHANGED << tmpdir, engineVars, concurrentVars >>

\* if not success: raise HTTPException(500);
\* return FileResponse(path=temp_output.name, ..., background=None)
Respond(r) ==
  /\ requests[r].pc = "respond"
  /\ requests' =
       [requests EXCEPT ![r] =
          [@ EXCEPT !.pc = "finally",
                    !.status = IF requests[r].success = "true" THEN "200" ELSE "500"]]
  /\ UNCHANGED << tmpdir, engineVars, concurrentVars >>

\* finally: if os.path.exists(temp_input.name): os.unlink(temp_input.name);
\* nothing is done to temp_output
Finally(r) ==
  /\ requests[r].pc = "finally"
  /\ tmpdir' = tmpdir \ { TempInput(r) }
  /\ requests' = [requests EXCEPT ![r].pc = "returned"]
  /\ UNCHANGED << engineVars, concurrentVars >>

\* the framework sends the response the handler returned or the error it
\* raised; background=None: no task runs after the response
SendResponse(r) ==
  /\ requests[r].pc = "returned"
  /\ requests' = [requests EXCEPT ![r].pc = "sent"]
  /\ UNCHANGED << tmpdir, engineVars, concurrentVars >>

ServerNext ==
  \E r \in Requests :
     \/ Validate(r)
     \/ CreateTempFiles(r)
     \/ SaveUpload(r)
     \/ RunAnonymizer(r)
     \/ Respond(r)
     \/ Finally(r)
     \/ SendResponse(r)

ServerSpec == ServerInit /\ [][ServerNext]_vars

(***************************************************************************)
(* Properties.                                                             *)
(***************************************************************************)

\* the texts of the runs of a paragraph, in order
RunTexts(para) == [r \in 1..Len(para) |-> para[r].text]

\* the document has been loaded by this call
Loaded == pc # "load" /\ exc # "PackageNotFoundError"

\* _anonymize_author_section has returned in this call
Redacted == pc = "save" \/ (pc = "done" /\ exc \in {"none", "OSError"})

\* the name extraction stage of this call has been entered
ExtractionReached ==
  pc \in {"anonymize", "save"} \/ (pc = "done" /\ exc \in {"none", "ValueError", "IndexError", "OSError"})

\* paragraph i (1-based) would be rewritten if the redaction visited it
WouldChange(i) == AnonymizeParagraph(input[i], order) # input[i]

\* paragraph i (1-based) has the same run texts in document d as in the input
SameTexts(d, i) == i <= Len(d) /\ RunTexts(d[i]) = RunTexts(input[i])

\* C1 (reference immutability): once the reference boundary is known, every
\* run of every paragraph at index >= reference_start has, in the document in
\* memory and in the saved file, the text it has in the input file.
C1_ReferenceImmutable ==
  (Loaded /\ reference_start_idx # -1) =>
     \A i \in 1..Len(input) :
        (i - 1 >= reference_start_idx) =>
           /\ SameTexts(doc, i)
           /\ output.state = "saved" => SameTexts(output.doc, i)

\* a reference paragraph holds a detected name and the author section was rewritten
C1_Witness ==
  /\ pc = "done" /\ result = "true"
  /\ doc # input
  /\ \E i \in 1..Len(input) : i - 1 >= reference_start_idx /\ WouldChange(i)

\* C2 (content-section immutability): after boundary detection, every run of
\* the paragraphs [author_section_end, reference_start) keeps its text, and
\* every paragraph whose text differs from the input lies below
\* author_section_end (only those are visited).
C2_ContentImmutable ==
  (Loaded /\ author_section_end # -1) =>
     /\ \A i \in 1..Len(input) :
          (author_section_end <= i - 1 /\ i - 1 < reference_start_idx) =>
             /\ SameTexts(doc, i)
             /\ output.state = "saved" => SameTexts(output.doc, i)
     /\ \A i \in 1..Len(doc) :
          (i <= Len(input) /\ doc[i] # input[i]) => i - 1 < author_section_end

\* a content paragraph holds a detected name and the author section was rewritten
C2_Witness ==
  /\ pc = "done" /\ result = "true"
  /\ doc # input
  /\ \E i \in 1..Len(input) :
       author_section_end <= i - 1 /\ i - 1 < reference_start_idx /\ WouldChange(i)

\* C3 (boundary monotonicity): once both boundaries are computed,
\* 0 <= author_section_end <= reference_start <= paragraph count, and the
\* redaction loop indexes no paragraph that does not exist.
C3_BoundaryMonotone ==
  /\ (Loaded /\ reference_start_idx # -1) =>
        (0 <= reference_start_idx /\ reference_start_idx <= Len(input))
  /\ (Loaded /\ author_section_end # -1) =>
        /\ 0 <= author_section_end
        /\ author_section_end <= reference_start_idx
        /\ ~AnonymizeRaises(input, author_section_end)
  /\ exc # "IndexError"

\* a document of fewer than 15 paragraphs without any heading has been redacted
C3_Witness ==
  /\ Redacted
  /\ Len(input) > 0 /\ Len(input) < DefaultAuthorEnd
  /\ author_section_end = Len(input)
  /\ reference_start_idx = Len(input)

\* C4 (no exception, truthful result): no exception leaves
\* anonymize_document; a call that has ended returned true or false; it
\* returned true exactly when no stage raised and the document in memory
\* was saved; a stage that raised makes it return false.
C4_NeverRaises ==
  /\ ~raised
  /\ pc = "done" => result \in {"true", "false"}
  /\ result = "true" <=>
       (pc = "done" /\ exc = "none" /\ output = SavedFile(doc))
  /\ exc # "none" => (pc = "done" /\ result = "false")
  /\ pc # "done" => result = "none"

\* the save failed after a redaction that rewrote nothing, and false came back
C4_Witness ==
  /\ pc = "done" /\ exc = "OSError" /\ result = "false"
  /\ output.state = "partial"
  /\ doc = input

\* C5 (formatting preservation): the document in memory and the saved file
\* have the paragraphs of the input, each with the same number of runs, and
\* every run has the non-text attributes it has in the input.
C5_FormattingPreserved ==
  LET Same(d) ==
        /\ Len(d) = Len(input)
        /\ \A i \in 1..Len(input) :
             /\ Len(d[i]) = Len(input[i])
             /\ \A r \in 1..Len(input[i]) : d[i][r].fmt = input[i][r].fmt
  IN  /\ Loaded => Same(doc)
      /\ output.state = "saved" => Same(output.doc)

\* an italic run has been rewritten and saved
C5_Witness ==
  /\ output.state = "saved"
  /\ \E i \in 1..Len(input) : \E r \in 1..Len(input[i]) :
       /\ input[i][r].fmt = "italic"
       /\ output.doc[i][r].text # input[i][r].text

\* the first call on Scenario A has returned true
ScenarioADone == input = ScenarioA /\ ~rerun /\ pc = "done" /\ result = "true"

\* C6 as stated (Scenario A): paragraph 1 is exactly [AUTHOR_AFFILIATION].
C6_ScenarioAffiliation ==
  ScenarioADone => ParaText(output.doc[2]) = AUTHOR_AFFILIATION

\* C6 amended: in Scenario A paragraph 1 is not classified as an affiliation
\* line, so its text is the text of the input after steps 1 to 3 only, and
\* is not [AUTHOR_AFFILIATION]; it is the input text when no detected name
\* occurs in it.
C6_ScenarioAffiliationKept ==
  ScenarioADone =>
     /\ ParaText(output.doc[2]) = Substitute(ParaText(ScenarioA[2]), order)
     /\ ParaText(output.doc[2]) # AUTHOR_AFFILIATION
     /\ (\A name \in detected_names : ~Occurs(name, ParaText(ScenarioA[2])))
           => ParaText(output.doc[2]) = ParaText(ScenarioA[2])

\* Scenario A has been anonymized with both author names detected
C6_Witness ==
  /\ ScenarioADone
  /\ {<<"John", " ", "Smith">>, <<"Jane", " ", "Doe">>} \subseteq detected_names
  /\ ParaText(output.doc[2]) = ParaText(ScenarioA[2])

RECURSIVE EmailSpansFrom(_, _)
\* the e-mail addresses of a text, as re.sub finds them: <<first, after>>
EmailSpansFrom(t, i) ==
  IF i > Len(t) THEN {}
  ELSE IF EmailMatchEnd(t, i) > 0
       THEN {<<i, EmailMatchEnd(t, i)>>} \cup EmailSpansFrom(t, EmailMatchEnd(t, i))
       ELSE EmailSpansFrom(t, i + 1)

\* the words (local part, domain labels) that a text holds only inside addresses
AddressWords(t) ==
  LET spans == EmailSpansFrom(t, 1)
      inside == { k \in 1..Len(t) : \E sp \in spans : sp[1] <= k /\ k < sp[2] }
  IN  { t[k] : k \in { j \in inside : IsWordAtom(t[j]) } }
        \ { t[k] : k \in (1..Len(t)) \ inside }

\* C7 (e-mail redaction): after the redaction, no run of the author section
\* whose input text holds an e-mail address still holds a word of that
\* address, whatever names were detected.
C7_EmailRedacted ==
  Redacted =>
     \A i \in 1..Len(input) :
        (i - 1 < author_section_end) =>
           \A r \in 1..Len(input[i]) :
              \A k \in 1..Len(doc[i][r].text) :
                 doc[i][r].text[k] \notin AddressWords(input[i][r].text)

\* C8 (idempotence): a second call on the file the first call wrote, in
\* which the recognizer reports no name the first call did not detect,
\* writes a file with the same run texts.
C8_Idempotent ==
  (rerun /\ pc = "done" /\ result = "true" /\ detected_names \subseteq previous_names) =>
     /\ Len(output.doc) = Len(input)
     /\ \A i \in 1..Len(input) : SameTexts(output.doc, i)

C11_ReferenceSection ==
  /\ pc = "find_author_end" =>
        LET qualifying ==
              { idx \in 0..(Len(input) - 1) :
                  LET text == LowerText(Strip(ParaText(input[idx + 1])))
                  IN  /\ TextLen(text) < HeadingMaxLen
                      /\ \E marker \in REFERENCE_MARKERS : Contains(marker, text) }
        IN  IF qualifying = {}
            THEN reference_start_idx = Len(input)
            ELSE /\ reference_start_idx \in qualifying
                 /\ \A idx \in qualifying : reference_start_idx <= idx
  /\ pc = "find_author_end" => (exc = "none" /\ ~raised /\ reference_start_idx # -1)

\* two reference headings behind a long sentence that mentions a keyword:
\* the first heading is the boundary
C11_Witness ==
  /\ pc = "find_author_end"
  /\ reference_start_idx > 0
  /\ input[1] = LongSentence
  /\ \E i \in 1..Len(input) :
       /\ i - 1 > reference_start_idx
       /\ IsHeading(input[i], REFERENCE_MARKERS)
  /\ IsHeading(input[reference_start_idx + 1], REFERENCE_MARKERS)

\* C13 (affiliation override): in the file written, a run of the author
\* section whose original text passes _is_likely_affiliation, contains an
\* institutional keyword, is shorter than 200 characters once trimmed and
\* does not end with a period has exactly the text [AUTHOR_AFFILIATION];
\* every other run of the author section has the text steps 1 to 3 give.
C13_AffiliationOverride ==
  output.state = "saved" =>
     \A i \in 1..author_section_end :
        \A r \in 1..Len(input[i]) :
           LET original == input[i][r].text
               overridden ==
                 /\ IsLikelyAffiliation(original)
                 /\ \E keyword \in AffiliationKeywords :
                       Contains(keyword, LowerText(original))
                 /\ TextLen(Strip(original)) < AffiliationLineMaxLen
                 /\ (original = << >> \/ original[Len(original)] # ".")
           IN  output.doc[i][r].text =
                 IF overridden THEN AUTHOR_AFFILIATION
                 ELSE SubOrcid(SubEmail(SubNames(original, order)))

\* an affiliation line in which steps 1 to 3 replaced a detected name and an
\* address has become [AUTHOR_AFFILIATION]
C13_Witness ==
  /\ output.state = "saved"
  /\ \E i \in 1..author_section_end :
       /\ input[i] = AffiliationWithContact
       /\ output.doc[i][1].text = AUTHOR_AFFILIATION
       /\ Occurs(AUTHOR_NAME, Substitute(input[i][1].text, order))
       /\ Occurs(EMAIL, Substitute(input[i][1].text, order))

\* the stages of anonymize_document, in the order of the specification
StageOrder ==
  << "load", "find_reference", "find_author_end", "extract_names", "anonymize", "save" >>

\* the stage that may follow stage k, or "done" after the last
StageAfter(k) == IF k < Len(StageOrder) THEN StageOrder[k + 1] ELSE "done"

\* one step of a call: the stage at hand either hands over to the stage that
\* follows it in the order, or ends the call; only the save stage writes the
\* output; a new call starts only when the previous one has ended
StageStep ==
  /\ pc # "done" =>
        \E k \in 1..Len(StageOrder) :
           /\ pc = StageOrder[k]
           /\ pc' \in { StageAfter(k), "done" }
           /\ (pc' # "done") => (exc' = "none" /\ result' = "none")
           /\ (k < Len(StageOrder) /\ pc' = "done") => (exc' # "none" /\ result' # "true")
  /\ pc = "done" => (pc' = "load" /\ output' = NoFile)
  /\ pc \notin { "save", "done" } => (output = NoFile /\ output' = NoFile)

\* the save stage starts from the redacted document; a written output, whole
\* or partial, comes from the save stage; a failure before it leaves none
SaveAfterRedaction ==
  /\ pc = "save" =>
        /\ exc = "none"
        /\ detected_names = { order[k] : k \in 1..Len(order) }
        /\ doc = AnonymizeAuthorSection(input, author_section_end, order)
  /\ output # NoFile => (pc = "done" /\ exc \in { "none", "OSError" })
  /\ exc \in { "PackageNotFoundError", "ValueError", "IndexError" } => output = NoFile

\* C14 (pipeline ordering): in every call the stages run in the order load,
\* detect reference boundary, detect author-section boundary, extract names,
\* redact, save, each at most once; the save starts only from the redacted
\* document, and a call in which an earlier stage failed writes no output.
C14_PipelineOrder == [][StageStep]_vars /\ []SaveAfterRedaction

\* the recognizer failed after both boundaries were computed: the call
\* returned false and there is no output
C14_Witness ==
  /\ pc = "done" /\ exc = "ValueError" /\ result = "false"
  /\ author_section_end > 0
  /\ Len(nlp_calls) = 1
  /\ output = NoFile

\* text holds a whole-word, case-insensitive occurrence of name
HoldsName(text, name) == \E i \in 1..Len(text) : NameMatchAt(text, i, name)

\* C16 (redaction completeness across runs): after the redaction, the
\* concatenated text of a paragraph of the author section holds no
\* whole-word, case-insensitive occurrence of a detected name, however the
\* paragraph is divided into runs.
C16_NoNameLeft ==
  Redacted =>
     \A i \in 1..author_section_end :
        \A name \in detected_names : ~HoldsName(ParaText(doc[i]), name)

\* C17 (determinism of name substitution): the run texts the redaction has
\* produced are those it produces for every order in which the detected
\* names can be substituted.
C17_OrderIndependent ==
  Redacted =>
     \A other \in Orders(detected_names) :
        \A i \in 1..author_section_end :
           \A r \in 1..Len(input[i]) :
              doc[i][r].text = ModifiedText(input[i][r].text, other)

\* what a call on file alone can give back and leave at its output path,
\* having iterated the detected names in the order chosen
AloneOutcome(file, chosen, returned, written) ==
  LET reference_start == FindReferenceSection(file)
      author_end == FindAuthorSectionEnd(file, reference_start)
  IN  \/ /\ returned = "true"
         /\ \E ents \in Recognize(AuthorText(file, author_end)) :
               chosen \in Orders(PersonNames(ents))
         /\ written = SavedFile(AnonymizeAuthorSection(file, author_end, chosen))
      \/ /\ returned = "false"
         /\ written \in { NoFile, PartialFile }

\* a step leaves alone every call that does not move in it: its position,
\* its result, its files and its local variables
OthersUntouched ==
  \A k \in Invocations :
     calls'[k].pc = calls[k].pc =>
        /\ calls'[k] = calls[k]
        /\ files'[k] = files[k]
        /\ frames'[k] = frames[k]

\* a call that has ended has an outcome of its own document processed alone
\* and never fails inside the redaction
OutcomeAsAlone ==
  \A k \in Invocations :
     /\ calls[k].exc # "IndexError"
     /\ calls[k].pc = "done" =>
          AloneOutcome(files[k].input, calls[k].order, calls[k].result, files[k].output)
     /\ calls[k].pc # "done" => (calls[k].result = "none" /\ files[k].output = NoFile)

\* C12 (concurrent independence): in every interleaving of two calls on
\* different documents that share the recognizer, each call returns what it
\* returns when run alone and writes the run texts it writes when run alone,
\* and no step of one call changes anything the other call holds.
C12_ConcurrentIndependent == [][OthersUntouched]_vars /\ []OutcomeAsAlone

\* both calls were in flight together, each with names of its own, and both
\* have returned true with rewritten documents
C12_Witness ==
  /\ \A k \in Invocations :
       /\ calls[k].pc = "done" /\ calls[k].result = "true"
       /\ files[k].output.doc # files[k].input
       /\ frames[k].detected_names # {}
  /\ frames["A"].detected_names # frames["B"].detected_names

\* the handler of request r has created its temporary files
CreatedTempFiles(r) == requests[r].docx /\ requests[r].pc \notin { "validate", "create" }

\* C15 (temporary-file lifecycle): for a request that created its two
\* temporary files, the temporary input file is gone once the handler has
\* finished, and the temporary output file is gone once the response has been
\* sent, whether the request ended with 200 or with 500.
C15_TempFilesRemoved ==
  \A r \in Requests :
     CreatedTempFiles(r) =>
        /\ requests[r].pc \in { "returned", "sent" } => TempInput(r) \notin tmpdir
        /\ requests[r].pc = "sent" => TempOutput(r) \notin tmpdir
====
